---- MODULE Spec2Model ----
(***************************************************************************)
(* A model of the food-tracking web client: the authentication store with  *)
(* its persisted slice and the 401 interceptor, the meal store with the    *)
(* day timeline's delete gate, and the voice recorder hook with the        *)
(* recorder component that drives it.                                      *)
(*                                                                         *)
(* Each part has its own specification: SpecAuth (authentication),         *)
(* SpecMeal (the meal store and its requests), SpecTimeline (the day       *)
(* timeline and the clock), SpecRec (the voice recorder with the upload of *)
(* its recordings), SpecCap (the voice recorder followed up to the         *)
(* duration cap) and SpecPause (the hook with a client that pauses and     *)
(* resumes).                                                               *)
(***************************************************************************)
EXTENDS Integers, Sequences, FiniteSets, TLC

VARIABLES
    \* ---- authentication (services/api.ts, stores/authStore.ts, App, AuthGuard)
    lsToken,      \* localStorage['food_app_auth_token']; NoToken when absent
    lsAuth,       \* localStorage['food-app-auth']: the persisted auth slice
    authStore,    \* the in-memory auth store of the current page load
    validTokens,  \* server side: the tokens the backend still accepts
    issued,       \* server side: number of tokens issued so far
    authCalls,    \* requests of the current page load that are in flight
    route,        \* the route the router shows
    initState,    \* AuthGuard's initializeAuth in this page load: none/running/done
    navPending,   \* window.location.href = '/login' was assigned, page not yet reloaded
    seen401,      \* history: an authenticated call got a 401 and no login succeeded since
    authDone      \* history: how the logout that completed in the last step was answered

authVars == <<lsToken, lsAuth, authStore, validTokens, issued, authCalls, route,
              initState, navPending, seen401, authDone>>

VARIABLES
    \* ---- meals (stores/mealStore.ts, DayTimeline, the backend's undo windows)
    now,               \* the client's Date.now(), in milliseconds
    skew,              \* how far the server's clock is ahead of the client's
    steps,             \* clock advances taken so far
    started,           \* requests the user has started so far
    srvMeals,          \* server side: the meals ever created, in creation order
    meals,             \* store: meals
    currentMeal,       \* store: currentMeal
    dailyStats,        \* store: dailyStats
    dashboardData,     \* store: dashboardData
    isLoading,         \* store: isLoading
    isUploading,       \* store: isUploading
    mealError,         \* store: error
    successMessage,    \* store: successMessage
    mealCalls,         \* the meal service's requests in flight, in issue order
    selectedMeal,      \* DayTimeline: selectedMeal
    showDeleteConfirm, \* DayTimeline: showDeleteConfirm
    isDeleting,        \* DayTimeline: isDeleting
    lastDone,          \* history: the store action that completed in the last step
    expiredFor,        \* history: meals whose revert/delete the server rejected as expired
    armedFor           \* history: the meal whose delete control the user pressed, with no
                       \* change of selection, cancel, close or click outside since

mealVars == <<now, skew, steps, started, srvMeals, meals, currentMeal, dailyStats,
              dashboardData, isLoading, isUploading, mealError, successMessage,
              mealCalls, selectedMeal, showDeleteConfirm, isDeleting, lastDone,
              expiredFor, armedFor>>

VARIABLES
    \* ---- voice recorder (hooks/useVoiceRecorder.ts, components/meals/VoiceRecorder.tsx)
    rec,        \* the hook: its React state and its refs
    sess,       \* one entry per startRecording call: stream, MediaRecorder, intervals
    comp,       \* the component's refs: pressTimerRef, isPressHoldRef, hasAutoSubmittedRef
    held,       \* the user holds the record control down
    level,      \* the RMS the analyser reads now, in hundredths
    acts,       \* user gestures so far
    heard,      \* history: a silence check has read a level above the threshold
    uploadsOf   \* history: uploads the auto-submit effect started, per recording

recVars == <<rec, sess, comp, held, level, acts, heard, uploadsOf>>

vars == <<authVars, mealVars, recVars>>

----------------------------------------------------------------------------
(* Bounds of the model *)

\* Logins the server answers with a fresh token.
MaxLogins == 2
\* Requests of one page load that may be in flight together.
MaxAuthCalls == 2
\* Meals the server creates.
MaxMeals == 4
\* Meal-service requests that may be in flight together.
MaxMealCalls == 2
\* Requests the user starts (uploads, undos, fetches).
MaxRequests == 4
\* Clock advances while the day timeline is watched.
MaxTimeSteps == 2
\* Calls of startRecording.
MaxStarts == 2
\* Uploads the auto-submit effect starts for one recording.
MaxUploads == 2
\* User gestures on the recorder (press, release, leave, retry, reset).
MaxActs == 4
\* Milliseconds after page load within which the user, the microphone and the
\* backend act on the recorder.
MaxActTime == 400
\* Milliseconds after page load the recorder is followed for.
MaxRecClock == 3200
\* Milliseconds after page load the recorder is followed for up to the cap.
MaxCapClock == 302000
\* Milliseconds after page load the paused recorder is followed for.
MaxPauseClock == 2400

----------------------------------------------------------------------------
(* Authentication *)

NoToken == 0
NoUser == 0
TheUser == 1

AuthOps == {"login", "logout", "validate", "meal"}

\* authStore.ts 50-57: the store's initial state.
AuthInitialState ==
    [user |-> NoUser, token |-> NoToken, isAuthenticated |-> FALSE,
     isLoading |-> FALSE, error |-> "null", successMessage |-> "null"]

\* authStore.ts 280-288: partialize keeps user, token and isAuthenticated only.
partialize(state) ==
    [user |-> state.user, token |-> state.token,
     isAuthenticated |-> state.isAuthenticated]

\* zustand persist on page load: the persisted slice is merged over the
\* initial state (isLoading, error and successMessage are not persisted).
Rehydrate(slice) ==
    [AuthInitialState EXCEPT !.user = slice.user, !.token = slice.token,
                             !.isAuthenticated = slice.isAuthenticated]

\* App (part_009 324-384): "/auth" redirects to "/dashboard" once authenticated.
RouteAfter(r, state) ==
    IF r = "/auth" /\ state.isAuthenticated THEN "/dashboard" ELSE r

\* App: the catch-all route the reload to '/login' lands on.
CatchAllRoute(state) ==
    IF state.isAuthenticated THEN "/dashboard" ELSE "/auth"

\* AuthGuard (part_004 21-61): children are rendered only when not loading and
\* authenticated.
ProtectedRendered ==
    /\ route = "/dashboard"
    /\ ~authStore.isLoading
    /\ authStore.isAuthenticated

\* AuthPage is shown by the "/auth" route or as AuthGuard's fallback.
AuthPageRendered ==
    \/ route = "/auth" /\ ~authStore.isAuthenticated
    \/ route = "/dashboard" /\ ~authStore.isLoading /\ ~authStore.isAuthenticated

\* zustand set() under persist: the store is updated and the slice is written.
SetAuth(new) ==
    /\ authStore' = new
    /\ lsAuth' = partialize(new)
    /\ route' = RouteAfter(route, new)

\* api.ts 78-87: the request interceptor attaches the stored token.
Request(op) == [op |-> op, hdr |-> lsToken]

\* authStore.ts 208-219 / 268-276: the logged-out state logout and a failed
\* initializeAuth write.
LoggedOut(state) ==
    [state EXCEPT !.user = NoUser, !.token = NoToken, !.isAuthenticated = FALSE,
                  !.isLoading = FALSE, !.error = "null"]

InitAuth ==
    /\ lsToken = NoToken
    /\ lsAuth = partialize(AuthInitialState)
    /\ authStore = AuthInitialState
    /\ validTokens = {}
    /\ issued = 0
    /\ authCalls = {}
    /\ route = "/auth"
    /\ initState = "none"
    /\ navPending = FALSE
    /\ seen401 = FALSE
    /\ authDone = "none"

\* authStore.ts 65-69: login sets the busy flag and sends the request.
Login ==
    /\ AuthPageRendered
    /\ issued < MaxLogins
    /\ Cardinality(authCalls) < MaxAuthCalls
    /\ Request("login") \notin authCalls
    /\ authCalls' = authCalls \cup {Request("login")}
    /\ SetAuth([authStore EXCEPT !.isLoading = TRUE, !.error = "null",
                                 !.successMessage = "null"])
    /\ UNCHANGED <<lsToken, validTokens, issued, initState, navPending, seen401>>
    /\ authDone' = "none"

\* authStore.ts 69-81: the server accepted the credentials.
LoginOk ==
    \E c \in authCalls :
      /\ c.op = "login"
      /\ issued' = issued + 1
      /\ validTokens' = validTokens \cup {issued + 1}
      /\ lsToken' = issued + 1
      /\ SetAuth([authStore EXCEPT !.user = TheUser, !.token = issued + 1,
                                   !.isAuthenticated = TRUE, !.isLoading = FALSE,
                                   !.error = "null"])
      /\ authCalls' = authCalls \ {c}
      /\ seen401' = FALSE
      /\ UNCHANGED <<initState, navPending>>
      /\ authDone' = "none"

\* api.ts 92-120 and authStore.ts 82-102: the server rejected the login; a 401
\* also runs the interceptor's token removal and redirect.
LoginFail ==
    \E c \in authCalls, status \in {400, 401} :
      /\ c.op = "login"
      /\ lsToken' = IF status = 401 THEN NoToken ELSE lsToken
      /\ navPending' = (navPending \/ status = 401)
      /\ SetAuth([authStore EXCEPT !.isLoading = FALSE, !.error = "login failed",
                                   !.isAuthenticated = FALSE, !.user = NoUser,
                                   !.token = NoToken])
      /\ authCalls' = authCalls \ {c}
      /\ UNCHANGED <<validTokens, issued, initState, seen401>>
      /\ authDone' = "none"

\* authStore.ts 199-204: logout sets the busy flag and sends the request.
Logout ==
    /\ ProtectedRendered
    /\ Cardinality(authCalls) < MaxAuthCalls
    /\ Request("logout") \notin authCalls
    /\ authCalls' = authCalls \cup {Request("logout")}
    /\ SetAuth([authStore EXCEPT !.isLoading = TRUE])
    /\ UNCHANGED <<lsToken, validTokens, issued, initState, navPending, seen401>>
    /\ authDone' = "none"

\* A logout that clears the session only when the server call succeeded.
LogoutDoneOnlyOnSuccess ==
    \E c \in authCalls, net \in {"answered", "failed"} :
      /\ c.op = "logout"
      /\ authDone' = net
      /\ LET is401 == net = "answered" /\ c.hdr \notin validTokens
         IN /\ validTokens' = IF net = "answered" THEN validTokens \ {c.hdr}
                              ELSE validTokens
            /\ navPending' = (navPending \/ is401)
            /\ seen401' = (seen401 \/ is401)
            /\ lsToken' = IF net = "answered" /\ ~is401 THEN NoToken ELSE lsToken
            /\ SetAuth(IF net = "answered" /\ ~is401
                       THEN [LoggedOut(authStore) EXCEPT !.successMessage = "null"]
                       ELSE [authStore EXCEPT !.isLoading = FALSE])
      /\ authCalls' = authCalls \ {c}
      /\ UNCHANGED <<issued, initState>>

\* authStore.ts 204-219: whatever the server answers (200, 401 through the
\* interceptor, or a network failure), the finally block clears the session.
LogoutDone ==
    \E c \in authCalls, net \in {"answered", "failed"} :
      /\ c.op = "logout"
      /\ authDone' = net
      /\ LET is401 == net = "answered" /\ c.hdr \notin validTokens
         IN /\ validTokens' = IF net = "answered" THEN validTokens \ {c.hdr}
                              ELSE validTokens
            /\ navPending' = (navPending \/ is401)
            /\ seen401' = (seen401 \/ is401)
      /\ lsToken' = NoToken
      /\ SetAuth([LoggedOut(authStore) EXCEPT !.successMessage = "null"])
      /\ authCalls' = authCalls \ {c}
      /\ UNCHANGED <<issued, initState>>

\* part_004 24-27 and authStore.ts 247-255: AuthGuard's mount effect starts
\* initializeAuth; without a stored token it only clears the busy flag.
InitializeAuth ==
    /\ route = "/dashboard"
    /\ initState = "none"
    /\ Cardinality(authCalls) < MaxAuthCalls
    /\ IF lsToken = NoToken
       THEN /\ SetAuth([authStore EXCEPT !.isLoading = FALSE])
            /\ initState' = "done"
            /\ UNCHANGED authCalls
       ELSE /\ SetAuth([authStore EXCEPT !.isLoading = TRUE, !.token = lsToken])
            /\ initState' = "running"
            /\ authCalls' = authCalls \cup {Request("validate")}
    /\ UNCHANGED <<lsToken, validTokens, issued, navPending, seen401>>
    /\ authDone' = "none"

\* authStore.ts 257-266: the server validated the token.
ValidateOk ==
    \E c \in authCalls :
      /\ c.op = "validate"
      /\ c.hdr \in validTokens
      /\ SetAuth([authStore EXCEPT !.user = TheUser, !.isAuthenticated = TRUE,
                                   !.isLoading = FALSE, !.error = "null"])
      /\ initState' = "done"
      /\ authCalls' = authCalls \ {c}
      /\ UNCHANGED <<lsToken, validTokens, issued, navPending, seen401>>
      /\ authDone' = "none"

\* api.ts 92-101 and authStore.ts 267-277: the token was rejected (401, through
\* the interceptor) or the request failed; the catch clears the session.
ValidateFail ==
    \E c \in authCalls, net \in {"answered", "failed"} :
      /\ c.op = "validate"
      /\ net = "answered" => c.hdr \notin validTokens
      /\ navPending' = (navPending \/ net = "answered")
      /\ seen401' = (seen401 \/ net = "answered")
      /\ lsToken' = NoToken
      /\ SetAuth(LoggedOut(authStore))
      /\ initState' = "done"
      /\ authCalls' = authCalls \ {c}
      /\ UNCHANGED <<validTokens, issued>>
      /\ authDone' = "none"

\* An authenticated call of the protected pages (the meal store's fetches,
\* upload, revert, delete): sent with the stored token.
MealCall ==
    /\ ProtectedRendered
    /\ ~navPending
    /\ Cardinality(authCalls) < MaxAuthCalls
    /\ Request("meal") \notin authCalls
    /\ authCalls' = authCalls \cup {Request("meal")}
    /\ UNCHANGED <<lsToken, lsAuth, authStore, validTokens, issued, route,
                   initState, navPending, seen401>>
    /\ authDone' = "none"

\* The call is answered with 2xx: the auth state is untouched.
MealCallOk ==
    \E c \in authCalls :
      /\ c.op = "meal"
      /\ c.hdr \in validTokens
      /\ authCalls' = authCalls \ {c}
      /\ UNCHANGED <<lsToken, lsAuth, authStore, validTokens, issued, route,
                     initState, navPending, seen401>>
      /\ authDone' = "none"

\* api.ts 94-101: the response interceptor on a 401. The meal store's catch
\* blocks (mealStore.ts 138-150, 194-202, ...) write only the meal store.
Intercept401(c) ==
    /\ lsToken' = NoToken
    /\ navPending' = TRUE
    /\ seen401' = TRUE
    /\ authCalls' = authCalls \ {c}
    /\ UNCHANGED <<lsAuth, authStore, validTokens, issued, route, initState>>

MealCall401 ==
    \E c \in authCalls :
      /\ c.op = "meal"
      /\ c.hdr \notin validTokens
      /\ Intercept401(c)
      /\ authDone' = "none"

\* Server side: a token expires or is revoked.
TokenExpires ==
    \E t \in validTokens :
      /\ validTokens' = validTokens \ {t}
      /\ UNCHANGED <<lsToken, lsAuth, authStore, issued, authCalls, route,
                     initState, navPending, seen401>>
      /\ authDone' = "none"

\* The navigation to '/login' completes: a new page load. The store is
\* rehydrated from the persisted slice, the old page's requests are gone and
\* the router's catch-all route redirects by isAuthenticated.
PageLoad ==
    /\ navPending
    /\ navPending' = FALSE
    /\ authStore' = Rehydrate(lsAuth)
    /\ route' = CatchAllRoute(Rehydrate(lsAuth))
    /\ authCalls' = {}
    /\ initState' = "none"
    /\ UNCHANGED <<lsToken, lsAuth, validTokens, issued, seen401>>
    /\ authDone' = "none"

AuthStep ==
    \/ Login /\ UNCHANGED <<mealVars, recVars>>
    \/ LoginOk /\ UNCHANGED <<mealVars, recVars>>
    \/ LoginFail /\ UNCHANGED <<mealVars, recVars>>
    \/ Logout /\ UNCHANGED <<mealVars, recVars>>
    \/ LogoutDone /\ UNCHANGED <<mealVars, recVars>>
    \/ InitializeAuth /\ UNCHANGED <<mealVars, recVars>>
    \/ ValidateOk /\ UNCHANGED <<mealVars, recVars>>
    \/ ValidateFail /\ UNCHANGED <<mealVars, recVars>>
    \/ MealCall /\ UNCHANGED <<mealVars, recVars>>
    \/ MealCallOk /\ UNCHANGED <<mealVars, recVars>>
    \/ MealCall401 /\ UNCHANGED <<mealVars, recVars>>
    \/ TokenExpires /\ UNCHANGED <<mealVars, recVars>>
    \/ PageLoad /\ UNCHANGED <<mealVars, recVars>>

----------------------------------------------------------------------------
(* Meals: the meal store, the backend's undo windows and the day timeline *)

\* frontend_meal_revert_guide.md: the revert window, 20 seconds.
REVERT_WINDOW_SECONDS == 20
\* part_000 15-16: the delete window, 3 hours.
DELETE_WINDOW_SECONDS == 3 * 60 * 60

MsPerSecond == 1000

\* The null meal (currentMeal: null, selectedMeal: null).
NoMeal == [id |-> 0, consumed_at |-> 0]
\* A missing consumed_at.
NoTime == -1

\* The clock advances by one of these steps: one millisecond, or to one
\* millisecond short of the delete window.
TimeSteps == {1, DELETE_WINDOW_SECONDS * MsPerSecond - 1}

\* The client's clock when the page is loaded.
StartTime == 2 * DELETE_WINDOW_SECONDS * MsPerSecond

\* How long before its creation a meal logged late was consumed ("last
\* night"): the backend resolves the spoken time, never to a future time.
ConsumedBefore == 4 * 60 * 60 * MsPerSecond

\* A meal the backend holds when the page is loaded, logged earlier from any
\* client at the server's time `created`.
ServerMeal(id, created, consumed_at) ==
    [id |-> id, created |-> created, consumed_at |-> consumed_at, live |-> TRUE,
     known |-> TRUE]

\* The backend's meals when the page is loaded, for a server clock `ahead` of
\* the client's: one meal logged just now; one logged just now for last night
\* and one logged just now; or one logged long ago and two logged just now.
InitialServerMeals(ahead) ==
    {<<ServerMeal(1, StartTime + ahead, StartTime + ahead)>>,
     <<ServerMeal(1, StartTime + ahead, StartTime + ahead - ConsumedBefore),
       ServerMeal(2, StartTime + ahead, StartTime + ahead)>>,
     <<ServerMeal(1, 0, 0),
       ServerMeal(2, StartTime + ahead, StartTime + ahead),
       ServerMeal(3, StartTime + ahead, StartTime + ahead)>>}

\* How far the server's clock may be ahead of the client's.
ClockSkews == {0, 60 * MsPerSecond}

Ids(list) == {list[i].id : i \in DOMAIN list}

\* Array.prototype.filter(meal => meal.id !== mealId)
WithoutMeal(list, mealId) == SelectSeq(list, LAMBDA m : m.id # mealId)

RemoveAt(seq, i) == SubSeq(seq, 1, i - 1) \o SubSeq(seq, i + 1, Len(seq))

\* What the backend sends for a meal: the client's Meal has no creation time.
ClientMeal(sm) == [id |-> sm.id, consumed_at |-> sm.consumed_at]

LiveMeals == SelectSeq(srvMeals, LAMBDA sm : sm.live /\ sm.known)

\* GET /food/meals/ and the meals of GET /food/meals/stats/daily/.
MealListPayload == [i \in 1..Len(LiveMeals) |-> ClientMeal(LiveMeals[i])]

\* types (part_009 152-165): the part of DailyStats that holds meals.
DailyStatsPayload ==
    [isNull |-> FALSE, meals |-> MealListPayload, meal_breakdown |-> MealListPayload]

NullStats == [isNull |-> TRUE, meals |-> <<>>, meal_breakdown |-> <<>>]

ServerNow == now + skew

\* frontend_meal_revert_guide.md / frontend_meal_delete_guide.md: the backend
\* accepts an undo of a live meal strictly inside the window, counted from the
\* meal's creation on the server's clock.
ServerVerdict(op, mealId) ==
    IF mealId \notin Ids(srvMeals) THEN "not_found"
    ELSE LET sm == srvMeals[CHOOSE i \in DOMAIN srvMeals : srvMeals[i].id = mealId]
             window == IF op = "revert" THEN REVERT_WINDOW_SECONDS
                       ELSE DELETE_WINDOW_SECONDS
         IN IF ~sm.known THEN "not_found"
            ELSE IF ~sm.live THEN "already"
            ELSE IF ServerNow - sm.created < window * MsPerSecond THEN "ok"
            ELSE "expired"

\* part_000 115-124
canDeleteMeal(meal) ==
    IF meal.consumed_at = NoTime THEN FALSE
    ELSE (now - meal.consumed_at) < DELETE_WINDOW_SECONDS * MsPerSecond

\* part_000 135, 201-205, 296: the timeline shows the meals of its prop that
\* have a consumed_at, unless the store is loading.
TimelineMeals ==
    IF isLoading \/ dailyStats.isNull THEN <<>>
    ELSE SelectSeq(dailyStats.meals, LAMBDA m : m.consumed_at # NoTime)

\* part_000 333, 427: the expanded card of the selected meal.
ExpandedMeals ==
    {TimelineMeals[i] : i \in {j \in DOMAIN TimelineMeals :
                                 TimelineMeals[j].id = selectedMeal.id}}

\* part_000 431, 473-482: the delete button of the expanded card.
DeleteOffered(meal) ==
    /\ meal \in ExpandedMeals
    /\ canDeleteMeal(meal)
    /\ ~showDeleteConfirm

\* No component of the client calls revertMeal or renders a revert control:
\* VoiceRecorder's success display (VoiceRecorder.tsx 224-237) shows the logged
\* meal's message only.
RevertOffered(meal) == FALSE

\* The ids the client has been told of: only these can reach revertMeal or
\* deleteMeal.
KnownIds ==
    (Ids(meals) \cup Ids(dailyStats.meals) \cup {currentMeal.id}) \ {NoMeal.id}

Idle == [op |-> "none", id |-> 0, ok |-> FALSE, ret |-> FALSE]

\* A request in flight. ui: the caller is DayTimeline's handleConfirmDelete,
\* which continues after the store action returns.
Call(op, arg, ui) ==
    [op |-> op, arg |-> arg, ui |-> ui, stage |-> "sent",
     status |-> "none", payload |-> <<>>, meal |-> NoMeal]

\* mealStore.ts 74-85
InitMeal ==
    /\ now = StartTime
    /\ skew \in ClockSkews
    /\ steps = 0
    /\ started = 0
    /\ srvMeals \in InitialServerMeals(skew)
    /\ meals = <<>>
    /\ currentMeal = NoMeal
    /\ dailyStats = NullStats
    /\ dashboardData = -1
    /\ isLoading = FALSE
    /\ isUploading = FALSE
    /\ mealError = "null"
    /\ successMessage = "null"
    /\ mealCalls = <<>>
    /\ selectedMeal = NoMeal
    /\ showDeleteConfirm = FALSE
    /\ isDeleting = FALSE
    /\ lastDone = Idle
    /\ expiredFor = {}
    /\ armedFor = NoMeal.id

UiVars == <<selectedMeal, showDeleteConfirm, isDeleting, armedFor>>
StoreData == <<meals, currentMeal, dailyStats, dashboardData>>
StoreFlags == <<isLoading, isUploading, mealError, successMessage>>
World == <<now, skew, steps, started, srvMeals>>

\* Time passes.
Advance ==
    \E d \in TimeSteps :
      /\ steps < MaxTimeSteps
      /\ now' = now + d
      /\ steps' = steps + 1
      /\ lastDone' = Idle
      /\ UNCHANGED <<skew, started, srvMeals, StoreData, StoreFlags, mealCalls, UiVars,
                     expiredFor>>

\* mealStore.ts 92-107: uploadVoiceRecording up to the request.
UploadStart ==
    /\ ~isUploading
    /\ Len(srvMeals) + Cardinality({i \in DOMAIN mealCalls : mealCalls[i].op = "upload"})
         < MaxMeals
    /\ Len(mealCalls) < MaxMealCalls
    /\ started < MaxRequests
    /\ started' = started + 1
    /\ isUploading' = TRUE
    /\ mealError' = "null"
    /\ successMessage' = "null"
    /\ mealCalls' = Append(mealCalls, Call("upload", 0, FALSE))
    /\ lastDone' = Idle
    /\ UNCHANGED <<now, skew, steps, srvMeals, StoreData, isLoading, UiVars, expiredFor>>

\* mealStore.ts 156-161: revertMeal up to the request. Nothing in the store
\* gates the call by time.
RevertStart ==
    \E mealId \in KnownIds :
      /\ Len(mealCalls) < MaxMealCalls
      /\ started < MaxRequests
      /\ started' = started + 1
      /\ mealCalls' = Append(mealCalls, Call("revert", mealId, FALSE))
      /\ lastDone' = Idle
      /\ UNCHANGED <<now, skew, steps, srvMeals, StoreData, StoreFlags, UiVars, expiredFor>>

\* mealStore.ts 321-325: fetchDailyStats up to the request (DashboardPage's
\* mount effect, part_008 36-39).
FetchDailyStatsStart ==
    /\ Len(mealCalls) < MaxMealCalls
    /\ started < MaxRequests
    /\ started' = started + 1
    /\ isLoading' = TRUE
    /\ mealError' = "null"
    /\ mealCalls' = Append(mealCalls, Call("daily", 0, FALSE))
    /\ lastDone' = Idle
    /\ UNCHANGED <<now, skew, steps, srvMeals, StoreData, isUploading, successMessage, UiVars, expiredFor>>

\* mealStore.ts 260-264: fetchMeals up to the request (RecentMeals).
FetchMealsStart ==
    /\ Len(mealCalls) < MaxMealCalls
    /\ started < MaxRequests
    /\ started' = started + 1
    /\ isLoading' = TRUE
    /\ mealError' = "null"
    /\ mealCalls' = Append(mealCalls, Call("meals", 0, FALSE))
    /\ lastDone' = Idle
    /\ UNCHANGED <<now, skew, steps, srvMeals, StoreData, isUploading, successMessage, UiVars, expiredFor>>

\* The backend handles a request: it creates the meal of an upload, decides an
\* undo by its own clock, or takes the snapshot a fetch returns.
ServerHandles ==
    \E i \in DOMAIN mealCalls :
      LET c == mealCalls[i] IN
      /\ c.stage = "sent"
      /\ lastDone' = Idle
      /\ UNCHANGED <<now, skew, steps, started, StoreData, StoreFlags, UiVars, expiredFor>>
      /\ CASE c.op = "upload" ->
                LET sm == ServerMeal(Len(srvMeals) + 1, ServerNow, ServerNow)
                IN /\ srvMeals' = Append(srvMeals, sm)
                   /\ mealCalls' = [mealCalls EXCEPT ![i].stage = "answered",
                                      ![i].status = "ok", ![i].meal = ClientMeal(sm)]
           [] c.op \in {"revert", "delete"} ->
                LET verdict == ServerVerdict(c.op, c.arg) IN
                /\ srvMeals' = IF verdict = "ok"
                               THEN [j \in DOMAIN srvMeals |->
                                       IF srvMeals[j].id = c.arg
                                       THEN [srvMeals[j] EXCEPT !.live = FALSE]
                                       ELSE srvMeals[j]]
                               ELSE srvMeals
                /\ mealCalls' = [mealCalls EXCEPT ![i].stage = "answered",
                                                  ![i].status = verdict]
           [] c.op \in {"daily", "meals"} ->
                /\ srvMeals' = srvMeals
                /\ mealCalls' = [mealCalls EXCEPT ![i].stage = "answered",
                                   ![i].status = "ok", ![i].payload = MealListPayload]
           [] c.op = "dashboard" ->
                /\ srvMeals' = srvMeals
                /\ mealCalls' = [mealCalls EXCEPT ![i].stage = "answered",
                                   ![i].status = "ok", ![i].payload = <<Len(LiveMeals)>>]

\* frontend_meal_delete_guide.md 78-83, frontend_meal_revert_guide.md 68-73: a
\* meal the client has seen is no longer among the user's meals on the backend,
\* which answers "Meal not found." (404) from then on.
ServerForgets ==
    \E j \in DOMAIN srvMeals :
      /\ srvMeals[j].known /\ srvMeals[j].live
      /\ srvMeals' = [srvMeals EXCEPT ![j].known = FALSE]
      /\ lastDone' = Idle
      /\ UNCHANGED <<now, skew, steps, started, StoreData, StoreFlags, mealCalls,
                     UiVars, expiredFor>>

\* A request or its response is lost: the service call rejects with a network
\* error (api.ts 114-118).
NetworkFails ==
    \E i \in DOMAIN mealCalls :
      /\ mealCalls[i].stage = "sent"
      /\ mealCalls' = [mealCalls EXCEPT ![i].stage = "answered",
                                        ![i].status = "network"]
      /\ lastDone' = Idle
      /\ UNCHANGED <<World, StoreData, StoreFlags, UiVars, expiredFor>>

\* mealStore.ts 132-135, 188-191, 240-243: the background refresh a successful
\* upload, revert or delete starts, in the place of the answered request.
WithRefresh(i) == [mealCalls EXCEPT ![i] = Call("dashboard", 0, FALSE)]

\* mealStore.ts 107-137: the upload succeeded.
UploadOk ==
    \E i \in DOMAIN mealCalls :
      LET c == mealCalls[i] IN
      /\ c.op = "upload" /\ c.stage = "answered" /\ c.status = "ok"
      /\ meals' = <<c.meal>> \o meals
      /\ currentMeal' = c.meal
      /\ isUploading' = FALSE
      /\ successMessage' = "Meal logged!"
      /\ mealCalls' = WithRefresh(i)
      /\ lastDone' = [op |-> "upload", id |-> c.meal.id, ok |-> TRUE, ret |-> TRUE]
      /\ UNCHANGED <<World, dailyStats, dashboardData, isLoading, mealError, UiVars,
                     expiredFor>>

\* A failed upload that leaves the store uploading.
UploadFailStaysBusy ==
    \E i \in DOMAIN mealCalls :
      LET c == mealCalls[i] IN
      /\ c.op = "upload" /\ c.stage = "answered" /\ c.status # "ok"
      /\ isUploading' = isUploading
      /\ mealError' = "Failed to process voice recording. Please try again."
      /\ mealCalls' = RemoveAt(mealCalls, i)
      /\ lastDone' = [op |-> "upload", id |-> 0, ok |-> FALSE, ret |-> FALSE]
      /\ UNCHANGED <<World, StoreData, isLoading, successMessage, UiVars, expiredFor>>

\* mealStore.ts 138-150: the upload failed.
UploadFail ==
    \E i \in DOMAIN mealCalls :
      LET c == mealCalls[i] IN
      /\ c.op = "upload" /\ c.stage = "answered" /\ c.status # "ok"
      /\ isUploading' = FALSE
      /\ mealError' = "Failed to process voice recording. Please try again."
      /\ mealCalls' = RemoveAt(mealCalls, i)
      /\ lastDone' = [op |-> "upload", id |-> 0, ok |-> FALSE, ret |-> FALSE]
      /\ UNCHANGED <<World, StoreData, isLoading, successMessage, UiVars, expiredFor>>

\* A store update that removes the meal from the lists and keeps currentMeal.
RemoveMealKeepCurrent(mealId) ==
    /\ meals' = WithoutMeal(meals, mealId)
    /\ currentMeal' = currentMeal
    /\ dailyStats' = IF dailyStats.isNull THEN NullStats
                     ELSE [dailyStats EXCEPT !.meals = WithoutMeal(dailyStats.meals, mealId)]
    /\ successMessage' = "Meal removed."

\* mealStore.ts 164-186 and 216-238: the store update of a successful revert or
\* delete.
RemoveMealFromStore(mealId) ==
    /\ meals' = WithoutMeal(meals, mealId)
    /\ currentMeal' = IF currentMeal.id = mealId THEN NoMeal ELSE currentMeal
    /\ dailyStats' = IF dailyStats.isNull THEN NullStats
                     ELSE [dailyStats EXCEPT !.meals = WithoutMeal(dailyStats.meals, mealId)]
    /\ successMessage' = "Meal removed."

\* A catch block that also forgets currentMeal.
UndoRejectedClearsCurrent ==
    /\ mealError' = "Failed to undo or delete meal."
    /\ currentMeal' = NoMeal
    /\ UNCHANGED <<meals, dailyStats, successMessage>>

\* mealStore.ts 194-202 and 246-254: the catch block of revertMeal and
\* deleteMeal.
UndoRejected ==
    /\ mealError' = "Failed to undo or delete meal."
    /\ UNCHANGED <<meals, currentMeal, dailyStats, successMessage>>

\* mealStore.ts 161-193: the revert succeeded.
RevertOk ==
    \E i \in DOMAIN mealCalls :
      LET c == mealCalls[i] IN
      /\ c.op = "revert" /\ c.stage = "answered" /\ c.status = "ok"
      /\ RemoveMealFromStore(c.arg)
      /\ mealCalls' = WithRefresh(i)
      /\ lastDone' = [op |-> "revert", id |-> c.arg, ok |-> TRUE, ret |-> TRUE]
      /\ UNCHANGED <<World, dashboardData, isLoading, isUploading, mealError, UiVars,
                     expiredFor>>

\* mealStore.ts 194-202: the revert was rejected.
RevertFail ==
    \E i \in DOMAIN mealCalls :
      LET c == mealCalls[i] IN
      /\ c.op = "revert" /\ c.stage = "answered" /\ c.status # "ok"
      /\ UndoRejected
      /\ mealCalls' = RemoveAt(mealCalls, i)
      /\ lastDone' = [op |-> "revert", id |-> c.arg, ok |-> FALSE, ret |-> FALSE]
      /\ expiredFor' = IF c.status = "expired" THEN expiredFor \cup {c.arg}
                       ELSE expiredFor
      /\ UNCHANGED <<World, dashboardData, isLoading, isUploading, UiVars>>

\* A card click that leaves the confirmation standing.
SelectMealKeepsConfirm ==
    \E i \in DOMAIN TimelineMeals :
      /\ selectedMeal' = IF selectedMeal.id = TimelineMeals[i].id THEN NoMeal
                         ELSE TimelineMeals[i]
      /\ showDeleteConfirm' = showDeleteConfirm
      /\ armedFor' = NoMeal.id
      /\ lastDone' = Idle
      /\ UNCHANGED <<World, StoreData, StoreFlags, mealCalls, isDeleting, expiredFor>>

\* part_000 361-364: a click on a meal's card selects it, or closes it when it
\* is the selected one.
SelectMeal ==
    \E i \in DOMAIN TimelineMeals :
      /\ selectedMeal' = IF selectedMeal.id = TimelineMeals[i].id THEN NoMeal
                         ELSE TimelineMeals[i]
      /\ showDeleteConfirm' = FALSE
      /\ armedFor' = NoMeal.id
      /\ lastDone' = Idle
      /\ UNCHANGED <<World, StoreData, StoreFlags, mealCalls, isDeleting, expiredFor>>

\* part_000 145-158: a mouse down outside the selected card, which the ref
\* holds while the card is rendered.
ClickOutside ==
    /\ ExpandedMeals # {}
    /\ selectedMeal' = NoMeal
    /\ showDeleteConfirm' = FALSE
    /\ armedFor' = NoMeal.id
    /\ lastDone' = Idle
    /\ UNCHANGED <<World, StoreData, StoreFlags, mealCalls, isDeleting, expiredFor>>

\* part_000 483-492: the close button of the expanded card.
CloseCard ==
    /\ ExpandedMeals # {}
    /\ selectedMeal' = NoMeal
    /\ showDeleteConfirm' = FALSE
    /\ armedFor' = NoMeal.id
    /\ lastDone' = Idle
    /\ UNCHANGED <<World, StoreData, StoreFlags, mealCalls, isDeleting, expiredFor>>

\* part_000 433-436 and 474-482: the delete button.
HandleDeleteClick ==
    \E meal \in ExpandedMeals :
      /\ DeleteOffered(meal)
      /\ showDeleteConfirm' = TRUE
      /\ armedFor' = meal.id
      /\ lastDone' = Idle
      /\ UNCHANGED <<World, StoreData, StoreFlags, mealCalls, selectedMeal, isDeleting,
                     expiredFor>>

\* part_000 449-452 and 515-521: the cancel button of the confirmation.
HandleCancelDelete ==
    /\ ExpandedMeals # {}
    /\ showDeleteConfirm
    /\ ~isDeleting
    /\ showDeleteConfirm' = FALSE
    /\ armedFor' = NoMeal.id
    /\ lastDone' = Idle
    /\ UNCHANGED <<World, StoreData, StoreFlags, mealCalls, selectedMeal, isDeleting,
                   expiredFor>>

\* mealStore.ts 208-213: deleteMeal up to the request, called on the store.
DeleteStart ==
    \E mealId \in KnownIds :
      /\ Len(mealCalls) < MaxMealCalls
      /\ started < MaxRequests
      /\ started' = started + 1
      /\ mealCalls' = Append(mealCalls, Call("delete", mealId, FALSE))
      /\ lastDone' = Idle
      /\ UNCHANGED <<now, skew, steps, srvMeals, StoreData, StoreFlags, UiVars, expiredFor>>

\* part_000 438-441, 497-514 and mealStore.ts 208-213: the confirm button calls
\* deleteMeal for the expanded meal.
HandleConfirmDelete ==
    \E meal \in ExpandedMeals :
      /\ showDeleteConfirm
      /\ ~isDeleting
      /\ Len(mealCalls) < MaxMealCalls
      /\ started < MaxRequests
      /\ started' = started + 1
      /\ isDeleting' = TRUE
      /\ armedFor' = NoMeal.id
      /\ mealCalls' = Append(mealCalls, Call("delete", meal.id, TRUE))
      /\ lastDone' = Idle
      /\ UNCHANGED <<now, skew, steps, srvMeals, StoreData, StoreFlags, selectedMeal, showDeleteConfirm,
                     expiredFor>>

\* mealStore.ts 213-245: the delete succeeded. part_000 442-446: the handler
\* that awaited it closes the confirmation and the card.
DeleteOk ==
    \E i \in DOMAIN mealCalls :
      LET c == mealCalls[i] IN
      /\ c.op = "delete" /\ c.stage = "answered" /\ c.status = "ok"
      /\ RemoveMealFromStore(c.arg)
      /\ mealCalls' = WithRefresh(i)
      /\ IF c.ui
         THEN /\ isDeleting' = FALSE
              /\ showDeleteConfirm' = FALSE
              /\ selectedMeal' = NoMeal
              /\ armedFor' = NoMeal.id
         ELSE UNCHANGED UiVars
      /\ lastDone' = [op |-> "delete", id |-> c.arg, ok |-> TRUE, ret |-> TRUE]
      /\ UNCHANGED <<World, dashboardData, isLoading, isUploading, mealError,
                     expiredFor>>

\* mealStore.ts 246-254: the delete was rejected. part_000 442-446: the handler
\* that awaited it closes the confirmation and leaves the card selected.
DeleteFail ==
    \E i \in DOMAIN mealCalls :
      LET c == mealCalls[i] IN
      /\ c.op = "delete" /\ c.stage = "answered" /\ c.status # "ok"
      /\ UndoRejected
      /\ mealCalls' = RemoveAt(mealCalls, i)
      /\ IF c.ui
         THEN /\ isDeleting' = FALSE
              /\ showDeleteConfirm' = FALSE
              /\ selectedMeal' = selectedMeal
              /\ armedFor' = armedFor
         ELSE UNCHANGED UiVars
      /\ lastDone' = [op |-> "delete", id |-> c.arg, ok |-> FALSE, ret |-> FALSE]
      /\ expiredFor' = IF c.status = "expired" THEN expiredFor \cup {c.arg}
                       ELSE expiredFor
      /\ UNCHANGED <<World, dashboardData, isLoading, isUploading>>

\* A fetch whose payload is kept only while the field it writes is empty: the
\* first response wins.
FetchOkFirstWins ==
    \E i \in DOMAIN mealCalls :
      LET c == mealCalls[i] IN
      /\ c.op \in {"daily", "meals"} /\ c.stage = "answered" /\ c.status = "ok"
      /\ IF c.op = "daily"
         THEN /\ dailyStats' = IF dailyStats.isNull
                               THEN [isNull |-> FALSE, meals |-> c.payload,
                                     meal_breakdown |-> c.payload]
                               ELSE dailyStats
              /\ meals' = meals
         ELSE /\ meals' = IF meals = <<>> THEN c.payload ELSE meals
              /\ dailyStats' = dailyStats
      /\ isLoading' = FALSE
      /\ mealCalls' = RemoveAt(mealCalls, i)
      /\ lastDone' = [op |-> c.op, id |-> 0, ok |-> TRUE, ret |-> TRUE]
      /\ UNCHANGED <<World, currentMeal, dashboardData, isUploading, mealError,
                     successMessage, UiVars, expiredFor>>

\* mealStore.ts 325-326 / 264-265: a fetch succeeded.
FetchOk ==
    \E i \in DOMAIN mealCalls :
      LET c == mealCalls[i] IN
      /\ c.op \in {"daily", "meals"} /\ c.stage = "answered" /\ c.status = "ok"
      /\ IF c.op = "daily"
         THEN /\ dailyStats' = [isNull |-> FALSE, meals |-> c.payload,
                                meal_breakdown |-> c.payload]
              /\ meals' = meals
         ELSE /\ meals' = c.payload
              /\ dailyStats' = dailyStats
      /\ isLoading' = FALSE
      /\ mealCalls' = RemoveAt(mealCalls, i)
      /\ lastDone' = [op |-> c.op, id |-> 0, ok |-> TRUE, ret |-> TRUE]
      /\ UNCHANGED <<World, currentMeal, dashboardData, isUploading, mealError,
                     successMessage, UiVars, expiredFor>>

\* mealStore.ts 266-272 / 327-333: a fetch failed.
FetchFail ==
    \E i \in DOMAIN mealCalls :
      LET c == mealCalls[i] IN
      /\ c.op \in {"daily", "meals"} /\ c.stage = "answered" /\ c.status # "ok"
      /\ isLoading' = FALSE
      /\ mealError' = "Failed to fetch."
      /\ mealCalls' = RemoveAt(mealCalls, i)
      /\ lastDone' = [op |-> c.op, id |-> 0, ok |-> FALSE, ret |-> TRUE]
      /\ UNCHANGED <<World, StoreData, isUploading, successMessage, UiVars, expiredFor>>

\* A background refresh that reports its failure like a fetch that is not
\* silent.
RefreshDoneSetsError ==
    \E i \in DOMAIN mealCalls :
      LET c == mealCalls[i] IN
      /\ c.op = "dashboard" /\ c.stage = "answered"
      /\ dashboardData' = IF c.status = "ok" THEN c.payload[1] ELSE dashboardData
      /\ isLoading' = FALSE
      /\ mealError' = IF c.status = "ok" THEN mealError
                      ELSE "Failed to fetch dashboard data."
      /\ mealCalls' = RemoveAt(mealCalls, i)
      /\ lastDone' = [op |-> "dashboard", id |-> 0, ok |-> c.status = "ok", ret |-> TRUE]
      /\ UNCHANGED <<World, meals, currentMeal, dailyStats, isUploading,
                     successMessage, UiVars, expiredFor>>

\* mealStore.ts 297-316 with silent = true: the background refresh completes.
RefreshDone ==
    \E i \in DOMAIN mealCalls :
      LET c == mealCalls[i] IN
      /\ c.op = "dashboard" /\ c.stage = "answered"
      /\ dashboardData' = IF c.status = "ok" THEN c.payload[1] ELSE dashboardData
      /\ isLoading' = FALSE
      /\ mealCalls' = RemoveAt(mealCalls, i)
      /\ lastDone' = [op |-> "dashboard", id |-> 0, ok |-> c.status = "ok", ret |-> TRUE]
      /\ UNCHANGED <<World, meals, currentMeal, dailyStats, isUploading, mealError,
                     successMessage, UiVars, expiredFor>>

\* The meal store with its requests and the backend.
StoreStep ==
    \/ UploadStart /\ UNCHANGED <<authVars, recVars>>
    \/ RevertStart /\ UNCHANGED <<authVars, recVars>>
    \/ DeleteStart /\ UNCHANGED <<authVars, recVars>>
    \/ FetchDailyStatsStart /\ UNCHANGED <<authVars, recVars>>
    \/ FetchMealsStart /\ UNCHANGED <<authVars, recVars>>
    \/ ServerHandles /\ UNCHANGED <<authVars, recVars>>
    \/ NetworkFails /\ UNCHANGED <<authVars, recVars>>
    \/ UploadOk /\ UNCHANGED <<authVars, recVars>>
    \/ UploadFail /\ UNCHANGED <<authVars, recVars>>
    \/ RevertOk /\ UNCHANGED <<authVars, recVars>>
    \/ RevertFail /\ UNCHANGED <<authVars, recVars>>
    \/ DeleteOk /\ UNCHANGED <<authVars, recVars>>
    \/ DeleteFail /\ UNCHANGED <<authVars, recVars>>
    \/ FetchOk /\ UNCHANGED <<authVars, recVars>>
    \/ FetchFail /\ UNCHANGED <<authVars, recVars>>
    \/ RefreshDone /\ UNCHANGED <<authVars, recVars>>

\* The day timeline of the dashboard, with the requests it causes.
TimelineStep ==
    \/ Advance /\ UNCHANGED <<authVars, recVars>>
    \/ FetchDailyStatsStart /\ UNCHANGED <<authVars, recVars>>
    \/ ServerHandles /\ UNCHANGED <<authVars, recVars>>
    \/ ServerForgets /\ UNCHANGED <<authVars, recVars>>
    \/ SelectMeal /\ UNCHANGED <<authVars, recVars>>
    \/ HandleDeleteClick /\ UNCHANGED <<authVars, recVars>>
    \/ HandleCancelDelete /\ UNCHANGED <<authVars, recVars>>
    \/ ClickOutside /\ UNCHANGED <<authVars, recVars>>
    \/ CloseCard /\ UNCHANGED <<authVars, recVars>>
    \/ HandleConfirmDelete /\ UNCHANGED <<authVars, recVars>>
    \/ DeleteOk /\ UNCHANGED <<authVars, recVars>>
    \/ DeleteFail /\ UNCHANGED <<authVars, recVars>>
    \/ FetchOk /\ UNCHANGED <<authVars, recVars>>
    \/ RefreshDone /\ UNCHANGED <<authVars, recVars>>

----------------------------------------------------------------------------
(* Voice recorder *)

\* useVoiceRecorder.ts 9
MAX_RECORDING_DURATION == 5 * 60

\* useVoiceRecorder.ts 176: 0.02, in hundredths.
SILENCE_THRESHOLD == 2

\* useVoiceRecorder.ts 177
SILENCE_DURATION == 3000

\* VoiceRecorder.tsx 115: the press-and-hold threshold, in milliseconds.
HoldThreshold == 300

\* useVoiceRecorder.ts 172 and 212: the periods of the two intervals.
DurationPeriod == 1000
SilencePeriod == 100

\* The RMS levels the microphone delivers: exactly the threshold, and speech
\* just above it.
Levels == {SILENCE_THRESHOLD, SILENCE_THRESHOLD + 1}

\* A null ref.
NoRef == 0

Sessions == 1..MaxStarts

\* useVoiceRecorder.ts 41-61: the hook's initial state and refs.
RecInitialState ==
    [isRecording |-> FALSE, isPaused |-> FALSE, duration |-> 0, audioBlob |-> NoRef,
     error |-> "null", recordingMode |-> "null",
     mediaRecorderRef |-> NoRef, streamRef |-> NoRef, timerRef |-> NoRef,
     silenceCheckIntervalRef |-> NoRef, audioContextRef |-> NoRef,
     analyserRef |-> NoRef, isRecordingRef |-> FALSE, startTimeRef |-> 0,
     pausedDurationRef |-> 0]

\* What one call of startRecording has created so far.
\*   phase: unused, acquiring (getUserMedia pending), denied, recording,
\*          stopping (stop() called, onstop not yet delivered), stopped
\*   durDue / silDue: when its duration / silence interval fires next
\*   lastSoundTime, hasSoundStarted: the closure variables of its silence interval
\*   stoppedBy: history, what called stop() on its MediaRecorder
\*   stops: history, the calls of stop() on its MediaRecorder
\*   paused: its MediaRecorder is paused
NoSession ==
    [phase |-> "unused", mode |-> "null", startedAt |-> NoTime,
     streamLive |-> FALSE, ctxOpen |-> FALSE, durDue |-> NoTime, silDue |-> NoTime,
     lastSoundTime |-> NoTime, hasSoundStarted |-> FALSE, stoppedBy |-> "none",
     stops |-> 0, paused |-> FALSE]

\* VoiceRecorder.tsx 29-31: the component's refs; mounted: the dashboard page
\* renders the component; gesture (history): the last event the record button
\* has handled, down, up or leave.
CompInitialState ==
    [pressTimer |-> NoTime, isPressHoldRef |-> FALSE, hasAutoSubmittedRef |-> FALSE,
     mounted |-> TRUE, gesture |-> "none"]

InitRec ==
    /\ rec = RecInitialState
    /\ sess = [k \in Sessions |-> NoSession]
    /\ comp = CompInitialState
    /\ held = FALSE
    /\ level \in Levels
    /\ acts = 0
    /\ heard = FALSE
    /\ uploadsOf = [k \in Sessions |-> 0]

\* setState of the hook: React drops the update of the state fields once the
\* component is unmounted, while the refs keep what the closures write.
SetState(old, new) ==
    IF comp.mounted THEN new
    ELSE [new EXCEPT !.isRecording = old.isRecording, !.isPaused = old.isPaused,
                     !.duration = old.duration,
                     !.audioBlob = old.audioBlob, !.error = old.error,
                     !.recordingMode = old.recordingMode]

\* The hook as a value: its state and refs, and what its calls created.
Hook(r, s) == [rec |-> r, sess |-> s]

\* clearInterval on the id a ref holds.
ClearDuration(s, k) == IF k = NoRef THEN s ELSE [s EXCEPT ![k].durDue = NoTime]
ClearSilence(s, k) == IF k = NoRef THEN s ELSE [s EXCEPT ![k].silDue = NoTime]

\* AudioContext.close()
CloseContext(s, k) == IF k = NoRef THEN s ELSE [s EXCEPT ![k].ctxOpen = FALSE]

\* MediaStream tracks' stop()
StopTracks(s, k) == IF k = NoRef THEN s ELSE [s EXCEPT ![k].streamLive = FALSE]

\* MediaRecorder.stop(): capture ends at once, the stop event follows.
StopRecorder(s, k, cause) ==
    IF k = NoRef THEN s
    ELSE IF s[k].phase = "recording"
    THEN [s EXCEPT ![k].phase = "stopping", ![k].stoppedBy = cause,
                   ![k].stops = @ + 1]
    ELSE [s EXCEPT ![k].stops = @ + 1]

\* A stopRecording that does not ask isRecordingRef.
stopRecordingUnguarded(h, cause) ==
    IF h.rec.mediaRecorderRef # NoRef
    THEN Hook([h.rec EXCEPT !.isRecordingRef = FALSE,
                            !.silenceCheckIntervalRef = NoRef,
                            !.audioContextRef = NoRef,
                            !.analyserRef = NoRef],
              CloseContext(
                ClearSilence(StopRecorder(h.sess, h.rec.mediaRecorderRef, cause),
                             h.rec.silenceCheckIntervalRef),
                h.rec.audioContextRef))
    ELSE h

\* useVoiceRecorder.ts 233-253
stopRecording(h, cause) ==
    IF h.rec.mediaRecorderRef # NoRef /\ h.rec.isRecordingRef
    THEN Hook([h.rec EXCEPT !.isRecordingRef = FALSE,
                            !.silenceCheckIntervalRef = NoRef,
                            !.audioContextRef = NoRef,
                            !.analyserRef = NoRef],
              CloseContext(
                ClearSilence(StopRecorder(h.sess, h.rec.mediaRecorderRef, cause),
                             h.rec.silenceCheckIntervalRef),
                h.rec.audioContextRef))
    ELSE h

\* useVoiceRecorder.ts 280-324
resetRecording(h) ==
    LET r == h.rec
        stopped == IF r.mediaRecorderRef # NoRef /\ r.isRecordingRef
                   THEN StopRecorder(h.sess, r.mediaRecorderRef, "reset")
                   ELSE h.sess
    IN Hook([r EXCEPT !.isRecording = FALSE, !.isPaused = FALSE, !.duration = 0,
                      !.audioBlob = NoRef, !.pausedDurationRef = 0,
                      !.error = "null", !.recordingMode = "null",
                      !.timerRef = NoRef, !.silenceCheckIntervalRef = NoRef,
                      !.audioContextRef = NoRef, !.analyserRef = NoRef,
                      !.isRecordingRef = FALSE],
            StopTracks(
              CloseContext(
                ClearSilence(ClearDuration(stopped, r.timerRef),
                             r.silenceCheckIntervalRef),
                r.audioContextRef),
              r.streamRef))

\* The next unused entry, for the next call of startRecording.
NextSession == Cardinality({k \in Sessions : sess[k].phase # "unused"}) + 1

\* useVoiceRecorder.ts 83-105: startRecording up to the await of getUserMedia.
startRecording(h, mode) ==
    Hook([h.rec EXCEPT !.isRecording = FALSE, !.isPaused = FALSE, !.duration = 0,
                       !.audioBlob = NoRef, !.pausedDurationRef = 0,
                       !.error = "null", !.recordingMode = mode],
         [h.sess EXCEPT ![NextSession] = [NoSession EXCEPT !.phase = "acquiring",
                                                           !.mode = mode]])

\* useVoiceRecorder.ts 66-78: updateDuration as the interval captured it (its
\* isPaused is the one of the render that created startRecording: false).
updateDuration(h) ==
    LET elapsed == (now - h.rec.startTimeRef) \div MsPerSecond
                     + h.rec.pausedDurationRef
    IN
    IF elapsed >= MAX_RECORDING_DURATION
    THEN stopRecording(h, "cap")
    ELSE Hook([h.rec EXCEPT !.duration = elapsed], h.sess)

\* VoiceRecorder.tsx 276: the record button is disabled.
ButtonDisabled == isUploading \/ rec.audioBlob # NoRef

\* User gestures and microphone events happen in the first MaxActTime
\* milliseconds.
InActTime == now - StartTime < MaxActTime

\* What a step of the recorder that makes no store call leaves alone.
StoreIdle ==
    /\ lastDone' = Idle
    /\ UNCHANGED <<skew, steps, started, srvMeals, StoreData, StoreFlags, mealCalls,
                   UiVars, expiredFor>>

\* Room for one more upload of the recording `blob` within the bounds.
UploadRoom(blob) ==
    /\ uploadsOf[blob] < MaxUploads
    /\ Len(mealCalls) < MaxMealCalls
    /\ Len(srvMeals) + Cardinality({i \in DOMAIN mealCalls : mealCalls[i].op = "upload"})
         < MaxMeals

\* VoiceRecorder.tsx 71: the condition of the auto-submit effect, for the
\* store's isUploading being false.
AutoSubmits(r, c) == c.mounted /\ r.audioBlob # NoRef /\ ~c.hasAutoSubmittedRef

\* Mouse down or touch start on the record button (VoiceRecorder.tsx 105-116).
\* A disabled button delivers no event.
PressStart ==
    /\ comp.mounted /\ ~held /\ InActTime /\ acts < MaxActs
    /\ NextSession <= MaxStarts
    /\ held' = TRUE
    /\ acts' = acts + 1
    /\ comp' = IF ButtonDisabled THEN comp
               ELSE IF rec.isRecording \/ rec.audioBlob # NoRef \/ isUploading
               THEN [comp EXCEPT !.gesture = "down"]
               ELSE [comp EXCEPT !.isPressHoldRef = FALSE,
                                 !.pressTimer = now + HoldThreshold,
                                 !.gesture = "down"]
    /\ StoreIdle
    /\ UNCHANGED <<now, rec, sess, level, uploadsOf, heard>>

\* VoiceRecorder.tsx 111-115: the 300 ms timer fires, the press is a hold.
PressTimerFires ==
    /\ comp.pressTimer = now
    /\ NextSession <= MaxStarts
    /\ comp' = [comp EXCEPT !.pressTimer = NoTime, !.isPressHoldRef = TRUE]
    /\ LET h == startRecording(Hook(rec, sess), "hold")
       IN rec' = SetState(rec, h.rec) /\ sess' = h.sess
    /\ StoreIdle
    /\ UNCHANGED <<now, held, level, acts, uploadsOf, heard>>

\* Mouse up or touch end: handlePressEnd (VoiceRecorder.tsx 121-139), then the
\* click the release completes (handleRecordButtonClick, 161-169).
PressEnd ==
    /\ comp.mounted /\ held /\ InActTime /\ acts < MaxActs
    /\ held' = FALSE
    /\ acts' = acts + 1
    /\ IF ButtonDisabled
       THEN UNCHANGED <<rec, sess, comp>>
       ELSE IF comp.isPressHoldRef /\ rec.recordingMode = "hold"
       THEN LET h == stopRecording(Hook(rec, sess), "user")
            IN /\ rec' = h.rec /\ sess' = h.sess
               /\ comp' = [comp EXCEPT !.pressTimer = NoTime, !.isPressHoldRef = FALSE,
                                      !.gesture = "up"]
       ELSE IF ~comp.isPressHoldRef /\ ~rec.isRecording /\ rec.audioBlob = NoRef
       THEN /\ NextSession <= MaxStarts
            /\ LET h == startRecording(Hook(rec, sess), "toggle")
               IN rec' = h.rec /\ sess' = h.sess
            /\ comp' = [comp EXCEPT !.pressTimer = NoTime, !.gesture = "up"]
       ELSE LET h == IF rec.isRecording /\ rec.recordingMode = "toggle"
                     THEN stopRecording(Hook(rec, sess), "user")
                     ELSE Hook(rec, sess)
            IN /\ rec' = h.rec /\ sess' = h.sess
               /\ comp' = [comp EXCEPT !.pressTimer = NoTime, !.gesture = "up"]
    /\ StoreIdle
    /\ UNCHANGED <<now, level, uploadsOf, heard>>

\* The pointer leaves the button while it is down: handleMouseLeave
\* (VoiceRecorder.tsx 144-156).
MouseLeave ==
    /\ comp.mounted /\ held /\ InActTime /\ acts < MaxActs
    /\ held' = FALSE
    /\ acts' = acts + 1
    /\ IF ButtonDisabled
       THEN UNCHANGED <<rec, sess, comp>>
       ELSE IF comp.isPressHoldRef /\ rec.recordingMode = "hold"
       THEN LET h == stopRecording(Hook(rec, sess), "user")
            IN /\ rec' = h.rec /\ sess' = h.sess
               /\ comp' = [comp EXCEPT !.pressTimer = NoTime, !.isPressHoldRef = FALSE,
                                      !.gesture = "leave"]
       ELSE /\ comp' = [comp EXCEPT !.pressTimer = NoTime, !.gesture = "leave"]
            /\ UNCHANGED <<rec, sess>>
    /\ StoreIdle
    /\ UNCHANGED <<now, level, uploadsOf, heard>>

\* useVoiceRecorder.ts 106-213: getUserMedia resolves and startRecording runs to
\* its end; the isRecording effect (VoiceRecorder.tsx 96-100) follows.
AcquireOk ==
    \E k \in Sessions :
      LET toggle == sess[k].mode = "toggle" IN
      /\ sess[k].phase = "acquiring"
      /\ InActTime
      /\ rec' = SetState(rec,
                   [rec EXCEPT !.streamRef = k,
                               !.audioContextRef = IF toggle THEN k ELSE @,
                               !.analyserRef = IF toggle THEN k ELSE @,
                               !.mediaRecorderRef = k,
                               !.startTimeRef = now,
                               !.isRecordingRef = TRUE,
                               !.isRecording = TRUE,
                               !.timerRef = k,
                               !.silenceCheckIntervalRef = IF toggle THEN k ELSE @])
      /\ sess' = [sess EXCEPT ![k] =
                    [@ EXCEPT !.phase = "recording", !.startedAt = now,
                              !.streamLive = TRUE, !.ctxOpen = toggle,
                              !.durDue = now + DurationPeriod,
                              !.silDue = IF toggle THEN now + SilencePeriod ELSE NoTime,
                              !.lastSoundTime = IF toggle THEN now ELSE NoTime]]
      /\ comp' = IF rec.isRecording \/ ~comp.mounted THEN comp
                 ELSE [comp EXCEPT !.hasAutoSubmittedRef = FALSE]
      /\ StoreIdle
      /\ UNCHANGED <<now, held, level, acts, uploadsOf, heard>>

\* The names of the errors getUserMedia rejects with: permission denied, no
\* device, and any other.
AcquireErrors == {"NotAllowedError", "NotFoundError", "OtherError"}

\* useVoiceRecorder.ts 216-224: the message for an error name.
MicrophoneError(name) ==
    CASE name = "NotAllowedError" ->
           "Microphone access denied. Please allow microphone access and try again."
      [] name = "NotFoundError" ->
           "No microphone found. Please connect a microphone and try again."
      [] OTHER -> "Failed to access microphone."

\* A catch block that reports the recording as started.
AcquireFailStartsAnyway ==
    \E k \in Sessions, name \in AcquireErrors :
      /\ sess[k].phase = "acquiring"
      /\ InActTime
      /\ rec' = [rec EXCEPT !.error = MicrophoneError(name), !.isRecording = TRUE]
      /\ sess' = [sess EXCEPT ![k].phase = "denied"]
      /\ StoreIdle
      /\ UNCHANGED <<now, comp, held, level, acts, uploadsOf, heard>>

\* useVoiceRecorder.ts 215-227: getUserMedia rejects.
AcquireFail ==
    \E k \in Sessions, name \in AcquireErrors :
      /\ sess[k].phase = "acquiring"
      /\ InActTime
      /\ rec' = SetState(rec, [rec EXCEPT !.error = MicrophoneError(name)])
      /\ sess' = [sess EXCEPT ![k].phase = "denied"]
      /\ StoreIdle
      /\ UNCHANGED <<now, comp, held, level, acts, uploadsOf, heard>>

\* The duration interval of call k fires (useVoiceRecorder.ts 172, 66-78).
DurationTick ==
    \E k \in Sessions :
      /\ sess[k].durDue = now
      /\ LET h == updateDuration(
                    Hook(rec, [sess EXCEPT ![k].durDue = now + DurationPeriod]))
         IN rec' = SetState(rec, h.rec) /\ sess' = h.sess
      /\ StoreIdle
      /\ UNCHANGED <<now, comp, held, level, acts, uploadsOf, heard>>

\* A silence test that does not ask whether speech has started.
SilenceElapsedUngated(s) == now - s.lastSoundTime >= SILENCE_DURATION

\* useVoiceRecorder.ts 200-203: the silence has lasted SILENCE_DURATION, counted
\* only once speech has started.
SilenceElapsed(s) ==
    s.hasSoundStarted /\ now - s.lastSoundTime >= SILENCE_DURATION

\* The silence interval of call k fires (useVoiceRecorder.ts 181-212).
SilenceCheck ==
    \E k \in Sessions :
      /\ sess[k].silDue = now
      /\ LET armed == [sess EXCEPT ![k].silDue = now + SilencePeriod] IN
         IF rec.analyserRef = NoRef
         THEN rec' = rec /\ sess' = armed
         ELSE IF level > SILENCE_THRESHOLD
         THEN /\ rec' = rec
              /\ sess' = [armed EXCEPT ![k].hasSoundStarted = TRUE,
                                       ![k].lastSoundTime = now]
         ELSE IF SilenceElapsed(sess[k])
         THEN LET h == stopRecording(
                         Hook([rec EXCEPT !.silenceCheckIntervalRef = NoRef],
                              ClearSilence(armed, rec.silenceCheckIntervalRef)),
                         "silence")
              IN rec' = h.rec /\ sess' = h.sess
         ELSE rec' = rec /\ sess' = armed
      /\ heard' = (heard \/ (rec.analyserRef # NoRef /\ level > SILENCE_THRESHOLD))
      /\ StoreIdle
      /\ UNCHANGED <<now, comp, held, level, acts, uploadsOf>>

\* uploadVoiceRecording as the recorder component calls it (mealStore.ts
\* 92-107, after clearError): the request for the recording `blob`.
VoiceUploadStarts(calls, blob) ==
    /\ isUploading' = TRUE
    /\ mealError' = "null"
    /\ successMessage' = "null"
    /\ mealCalls' = Append(calls, Call("upload", blob, TRUE))

\* The stop event of call k's MediaRecorder (useVoiceRecorder.ts 136-153), and
\* the auto-submit effect the new audioBlob runs (VoiceRecorder.tsx 70-93).
OnStop ==
    \E k \in Sessions :
      /\ sess[k].phase = "stopping"
      /\ rec' = SetState(rec, [rec EXCEPT !.isRecording = FALSE, !.audioBlob = k,
                                          !.timerRef = NoRef])
      /\ sess' = ClearDuration(
                   StopTracks([sess EXCEPT ![k].phase = "stopped"], rec.streamRef),
                   rec.timerRef)
      /\ lastDone' = Idle
      /\ IF comp.mounted /\ ~isUploading /\ ~comp.hasAutoSubmittedRef
         THEN /\ UploadRoom(k)
              /\ comp' = [comp EXCEPT !.hasAutoSubmittedRef = TRUE]
              /\ VoiceUploadStarts(mealCalls, k)
              /\ uploadsOf' = [uploadsOf EXCEPT ![k] = @ + 1]
         ELSE UNCHANGED <<comp, StoreFlags, mealCalls, uploadsOf>>
      /\ UNCHANGED <<World, StoreData, isLoading, UiVars, expiredFor, held, level, acts,
                     heard>>

\* mealStore.ts 107-137: the upload of a recording succeeded. The store's
\* update runs the auto-submit effect; then autoSubmit or handleUpload
\* continues (VoiceRecorder.tsx 81-84, 182-185).
VoiceUploadOk ==
    \E i \in DOMAIN mealCalls :
      LET c == mealCalls[i]
          again == AutoSubmits(rec, comp)
          h == resetRecording(Hook(rec, sess))
      IN
      /\ c.op = "upload" /\ c.ui /\ c.stage = "answered" /\ c.status = "ok"
      /\ meals' = <<c.meal>> \o meals
      /\ currentMeal' = c.meal
      /\ IF again
         THEN /\ UploadRoom(rec.audioBlob)
              /\ VoiceUploadStarts(WithRefresh(i), rec.audioBlob)
              /\ uploadsOf' = [uploadsOf EXCEPT ![rec.audioBlob] = @ + 1]
         ELSE /\ isUploading' = FALSE
              /\ successMessage' = "Meal logged!"
              /\ mealCalls' = WithRefresh(i)
              /\ UNCHANGED <<mealError, uploadsOf>>
      /\ rec' = SetState(rec, h.rec) /\ sess' = h.sess
      /\ comp' = [comp EXCEPT !.hasAutoSubmittedRef = FALSE]
      /\ lastDone' = [op |-> "upload", id |-> c.meal.id, ok |-> TRUE, ret |-> TRUE]
      /\ UNCHANGED <<World, dailyStats, dashboardData, isLoading, UiVars, expiredFor,
                     held, level, acts, heard>>

\* mealStore.ts 138-150: the upload of a recording failed; the recording is
\* kept for a retry (VoiceRecorder.tsx 85-88, 186-188).
VoiceUploadFail ==
    \E i \in DOMAIN mealCalls :
      LET c == mealCalls[i]
          again == AutoSubmits(rec, comp)
      IN
      /\ c.op = "upload" /\ c.ui /\ c.stage = "answered" /\ c.status # "ok"
      /\ IF again
         THEN /\ uploadsOf[rec.audioBlob] < MaxUploads
              /\ VoiceUploadStarts(RemoveAt(mealCalls, i), rec.audioBlob)
              /\ uploadsOf' = [uploadsOf EXCEPT ![rec.audioBlob] = @ + 1]
         ELSE /\ isUploading' = FALSE
              /\ mealError' = "Failed to process voice recording. Please try again."
              /\ mealCalls' = RemoveAt(mealCalls, i)
              /\ UNCHANGED <<successMessage, uploadsOf>>
      /\ comp' = [comp EXCEPT !.hasAutoSubmittedRef = FALSE]
      /\ lastDone' = [op |-> "upload", id |-> 0, ok |-> FALSE, ret |-> FALSE]
      /\ UNCHANGED <<World, StoreData, isLoading, UiVars, expiredFor, rec, sess,
                     held, level, acts, heard>>

\* VoiceRecorder.tsx 338-357: the retry buttons are shown.
RetryShown == rec.audioBlob # NoRef /\ ~isUploading /\ mealError # "null"

\* "Retry Analysis": handleUpload (VoiceRecorder.tsx 174-181).
HandleUpload ==
    /\ comp.mounted /\ RetryShown /\ InActTime /\ acts < MaxActs
    /\ UploadRoom(rec.audioBlob)
    /\ acts' = acts + 1
    /\ comp' = [comp EXCEPT !.hasAutoSubmittedRef = TRUE]
    /\ VoiceUploadStarts(mealCalls, rec.audioBlob)
    /\ lastDone' = Idle
    /\ UNCHANGED <<World, StoreData, isLoading, UiVars, expiredFor, rec, sess, held,
                   level, uploadsOf, heard>>

\* "New Recording": handleReset (VoiceRecorder.tsx 194-201, mealStore.ts
\* 375-389).
HandleReset ==
    /\ comp.mounted /\ RetryShown /\ InActTime /\ acts < MaxActs
    /\ acts' = acts + 1
    /\ LET h == resetRecording(Hook(rec, sess))
       IN rec' = h.rec /\ sess' = h.sess
    /\ comp' = [comp EXCEPT !.hasAutoSubmittedRef = FALSE]
    /\ isUploading' = FALSE
    /\ currentMeal' = NoMeal
    /\ mealError' = "null"
    /\ successMessage' = "null"
    /\ lastDone' = Idle
    /\ UNCHANGED <<World, meals, dailyStats, dashboardData, isLoading, mealCalls,
                   UiVars, expiredFor, held, level, uploadsOf, heard>>

\* The user leaves the dashboard (App, part_009 346-365): the page and the
\* recorder component are unmounted. Neither the hook nor the component has a
\* cleanup effect for the stream, the audio context, the recorder or the
\* timers (VoiceRecorder.tsx 58-100: the only cleanup clears the success
\* timer).
Unmount ==
    /\ comp.mounted /\ InActTime /\ acts < MaxActs
    /\ comp' = [comp EXCEPT !.mounted = FALSE]
    /\ held' = FALSE
    /\ acts' = acts + 1
    /\ StoreIdle
    /\ UNCHANGED <<now, rec, sess, level, uploadsOf, heard>>

\* useVoiceRecorder.ts 258-264: pauseRecording, called by a client of the hook.
PauseRecording ==
    /\ comp.mounted /\ acts < MaxActs
    /\ rec.mediaRecorderRef # NoRef /\ rec.isRecording /\ ~rec.isPaused
    /\ acts' = acts + 1
    /\ sess' = [sess EXCEPT ![rec.mediaRecorderRef].paused =
                    (sess[rec.mediaRecorderRef].phase = "recording")]
    /\ rec' = [rec EXCEPT !.pausedDurationRef = rec.duration, !.isPaused = TRUE]
    /\ StoreIdle
    /\ UNCHANGED <<now, comp, held, level, uploadsOf, heard>>

\* useVoiceRecorder.ts 269-275: resumeRecording, called by a client of the
\* hook.
ResumeRecording ==
    /\ comp.mounted /\ acts < MaxActs
    /\ rec.mediaRecorderRef # NoRef /\ rec.isPaused
    /\ acts' = acts + 1
    /\ sess' = [sess EXCEPT ![rec.mediaRecorderRef].paused = FALSE]
    /\ rec' = [rec EXCEPT !.startTimeRef = now, !.isPaused = FALSE]
    /\ StoreIdle
    /\ UNCHANGED <<now, comp, held, level, uploadsOf, heard>>

\* The sound at the microphone changes.
LevelChanges ==
    \E l \in Levels \ {level} :
      /\ InActTime
      /\ level' = l
      /\ StoreIdle
      /\ UNCHANGED <<now, rec, sess, comp, held, acts, uploadsOf, heard>>

\* The times at which a timer or an interval is due.
DueTimes ==
    ({sess[k].durDue : k \in Sessions} \cup {sess[k].silDue : k \in Sessions}
       \cup {comp.pressTimer}) \ {NoTime}

\* The clock reaches the next due time. The stop event of a MediaRecorder is
\* delivered before any later timer.
RecTick(limit) ==
    /\ DueTimes # {}
    /\ \A t \in DueTimes : t > now
    /\ \A k \in Sessions : sess[k].phase # "stopping"
    /\ LET next == CHOOSE t \in DueTimes : \A u \in DueTimes : t <= u IN
       /\ next - StartTime <= limit
       /\ now' = next
    /\ lastDone' = Idle
    /\ UNCHANGED <<skew, steps, started, srvMeals, StoreData, StoreFlags, mealCalls,
                   UiVars, expiredFor, recVars>>

\* The recorder component with the hook, the upload of its recordings and the
\* backend.
RecStep ==
    \/ PressStart /\ UNCHANGED authVars
    \/ PressTimerFires /\ UNCHANGED authVars
    \/ PressEnd /\ UNCHANGED authVars
    \/ MouseLeave /\ UNCHANGED authVars
    \/ AcquireOk /\ UNCHANGED authVars
    \/ AcquireFail /\ UNCHANGED authVars
    \/ DurationTick /\ UNCHANGED authVars
    \/ SilenceCheck /\ UNCHANGED authVars
    \/ OnStop /\ UNCHANGED authVars
    \/ InActTime /\ ServerHandles /\ UNCHANGED <<authVars, recVars>>
    \/ InActTime /\ NetworkFails /\ UNCHANGED <<authVars, recVars>>
    \/ VoiceUploadOk /\ UNCHANGED authVars
    \/ VoiceUploadFail /\ UNCHANGED authVars
    \/ RefreshDone /\ UNCHANGED <<authVars, recVars>>
    \/ HandleUpload /\ UNCHANGED authVars
    \/ HandleReset /\ UNCHANGED authVars
    \/ Unmount /\ UNCHANGED authVars
    \/ LevelChanges /\ UNCHANGED authVars
    \/ RecTick(MaxRecClock) /\ UNCHANGED authVars

\* The recorder followed up to the duration cap: the gestures and the
\* microphone as above, the sound level as it was at page load, and no answer
\* to an upload.
CapStep ==
    \/ PressStart /\ UNCHANGED authVars
    \/ PressTimerFires /\ UNCHANGED authVars
    \/ PressEnd /\ UNCHANGED authVars
    \/ MouseLeave /\ UNCHANGED authVars
    \/ AcquireOk /\ UNCHANGED authVars
    \/ DurationTick /\ UNCHANGED authVars
    \/ SilenceCheck /\ UNCHANGED authVars
    \/ OnStop /\ UNCHANGED authVars
    \/ RecTick(MaxCapClock) /\ UNCHANGED authVars

\* The hook with a client that pauses and resumes: a recording the button
\* starts, its intervals, and pauseRecording and resumeRecording.
PauseStep ==
    \/ PressStart /\ UNCHANGED authVars
    \/ PressEnd /\ UNCHANGED authVars
    \/ AcquireOk /\ UNCHANGED authVars
    \/ DurationTick /\ UNCHANGED authVars
    \/ SilenceCheck /\ UNCHANGED authVars
    \/ PauseRecording /\ UNCHANGED authVars
    \/ ResumeRecording /\ UNCHANGED authVars
    \/ RecTick(MaxPauseClock) /\ UNCHANGED authVars

----------------------------------------------------------------------------
(* Specifications *)

\* The initial states: one server meal and equal clocks where the part that is
\* followed does not depend on them.
InitAll == InitAuth /\ InitMeal /\ InitRec
InitPlain == InitAll /\ skew = 0 /\ Len(srvMeals) = 1 /\ level = SILENCE_THRESHOLD
InitStore == InitAll /\ skew = 0 /\ Len(srvMeals) = 3 /\ level = SILENCE_THRESHOLD
InitTimeline == InitAll /\ Len(srvMeals) < 3 /\ level = SILENCE_THRESHOLD
InitRecorder == InitAll /\ skew = 0 /\ Len(srvMeals) = 2

SpecAuth == InitPlain /\ [][AuthStep]_vars
SpecMeal == InitStore /\ [][StoreStep]_vars
SpecTimeline == InitTimeline /\ [][TimelineStep]_vars
SpecRec == InitRecorder /\ [][RecStep]_vars
SpecCap == InitRecorder /\ [][CapStep]_vars
SpecPause == InitRecorder /\ [][PauseStep]_vars

----------------------------------------------------------------------------
(* C1: after a 401 on an authenticated call, once the page has reloaded and
   initializeAuth has completed, the token is absent from storage and the
   store is logged out, so protected content is not rendered until a new
   login succeeds. *)
C1_After401LoggedOut ==
    (seen401 /\ ~navPending /\ initState = "done")
        => (lsToken = NoToken /\ ~authStore.isAuthenticated /\ ~ProtectedRendered)

----------------------------------------------------------------------------
(* Undo of a meal: revert and delete *)

Range(list) == {list[i] : i \in DOMAIN list}

\* Some entry with id a stands before some entry with id b.
Before(list, a, b) ==
    \E i, j \in DOMAIN list : i < j /\ list[i].id = a /\ list[j].id = b

\* `after` is `before` without the entries of mealId: nothing else is lost,
\* added or reordered.
RemovedFrom(before, after, mealId) ==
    /\ mealId \notin Ids(after)
    /\ Len(after) = Cardinality({i \in DOMAIN before : before[i].id # mealId})
    /\ \A i \in DOMAIN before : before[i].id # mealId => before[i] \in Range(after)
    /\ \A a, b \in Ids(after) : Before(after, a, b) <=> Before(before, a, b)

UndoSucceeded(done) == done.op \in {"revert", "delete"} /\ done.ok
UndoFailed(done) == done.op \in {"revert", "delete"} /\ ~done.ok

\* The time since the backend created the meal, on the client's clock.
ElapsedSinceCreation(mealId) ==
    now - srvMeals[CHOOSE i \in DOMAIN srvMeals : srvMeals[i].id = mealId].created

(* C6: the step in which revertMeal(id) or deleteMeal(id) succeeds removes the
   meal from meals and from dailyStats.meals, keeps every other meal in its
   order, clears currentMeal if it was that meal, and consumes no answer of a
   fetch of the meal list or of the daily statistics. *)
C6_UndoRemovesMeal ==
    [][UndoSucceeded(lastDone') =>
         /\ RemovedFrom(meals, meals', lastDone'.id)
         /\ dailyStats.isNull => dailyStats'.isNull
         /\ ~dailyStats.isNull =>
               /\ ~dailyStats'.isNull
               /\ RemovedFrom(dailyStats.meals, dailyStats'.meals, lastDone'.id)
         /\ currentMeal' = IF currentMeal.id = lastDone'.id THEN NoMeal
                           ELSE currentMeal
         /\ \A i \in DOMAIN mealCalls :
               mealCalls[i].op \in {"daily", "meals"} =>
                 \E j \in DOMAIN mealCalls' : mealCalls'[j] = mealCalls[i]]_vars

\* The revert of the meal just logged has succeeded: it has left both lists,
\* where two other meals stay, and currentMeal is cleared.
C6_Witness ==
    /\ UndoSucceeded(lastDone)
    /\ ~srvMeals[lastDone.id].live /\ srvMeals[lastDone.id].created = ServerNow
    /\ currentMeal = NoMeal
    /\ Len(meals) >= 2
    /\ ~dailyStats.isNull /\ Len(dailyStats.meals) >= 2

(* C7: the step in which a revert or delete is rejected or fails returns
   false, sets the error string and leaves meals, currentMeal and dailyStats
   as they were. *)
C7_RejectedUndoKeepsMeal ==
    [][UndoFailed(lastDone') =>
         /\ ~lastDone'.ret
         /\ mealError' # "null"
         /\ meals' = meals
         /\ currentMeal' = currentMeal
         /\ dailyStats' = dailyStats]_vars

\* The backend has rejected, as window-expired, the revert of a meal that is
\* in the list, while a logged meal is the current one.
C7_Witness ==
    /\ UndoFailed(lastDone)
    /\ lastDone.id \in expiredFor
    /\ lastDone.id \in Ids(meals)
    /\ currentMeal # NoMeal
    /\ mealError # "null"

(* C8: once the backend has rejected the revert or delete of a meal as
   window-expired, the client offers that action for that meal no more. *)
C8_ExpiredUndoHidden ==
    \A m \in ExpandedMeals :
        m.id \in expiredFor => (~DeleteOffered(m) /\ ~RevertOffered(m))

(* C9: the delete action is offered for the expanded meal if and only if less
   than 10,800 s have passed since the meal's creation. *)
C9_DeleteOfferedIffInsideWindow ==
    \A m \in ExpandedMeals :
        ~showDeleteConfirm =>
            (DeleteOffered(m) <=>
               ElapsedSinceCreation(m.id) < 10800 * MsPerSecond)

(* C10: the revert action is offered for the meal just logged if and only if
   less than 20 s have passed since its analysis completed. *)
C10_RevertOfferedIffInsideWindow ==
    currentMeal # NoMeal =>
        (RevertOffered(currentMeal) <=>
           ElapsedSinceCreation(currentMeal.id) < 20 * MsPerSecond)

----------------------------------------------------------------------------
(* Voice recording *)

Recording(k) == sess[k].phase = "recording"

\* The recorder UI is idle.
RecorderIdle(r) == ~r.isRecording /\ r.audioBlob = NoRef /\ r.duration = 0

(* C2: no hold-mode recording is active while the control is not held. *)
C2_HoldRecordsOnlyWhileHeld ==
    \A k \in Sessions : (Recording(k) /\ sess[k].mode = "hold") => held

(* C3: no recording captures more than MAX_RECORDING_DURATION = 300 s. *)
C3_DurationCapped ==
    \A k \in Sessions :
        Recording(k) => now - sess[k].startedAt <= 300 * MsPerSecond

(* C4: the silence check stops no recording before some sample it read was
   above the speech threshold. *)
C4_NoSilenceStopBeforeSpeech ==
    \A k \in Sessions : sess[k].stoppedBy = "silence" => heard

\* A toggle recording was stopped by the silence check, SILENCE_DURATION after
\* speech, while the level was at the threshold.
C4_Witness ==
    \E k \in Sessions :
        /\ sess[k].stoppedBy = "silence" /\ sess[k].mode = "toggle"
        /\ level = SILENCE_THRESHOLD
        /\ now - sess[k].startedAt >= SILENCE_DURATION

(* C5: a recording that was started and stopped is uploaded by the auto-submit
   effect exactly once, and the step in which its upload succeeds leaves the
   recorder idle: isRecording false, audioBlob null, duration 0. *)
C5_OneUploadThenIdle ==
    /\ \A k \in Sessions :
         /\ uploadsOf[k] <= 1
         /\ (rec.audioBlob = k /\ sess[k].phase = "stopped") => uploadsOf[k] = 1
    /\ (lastDone.op = "upload" /\ lastDone.ok) => RecorderIdle(rec)

----------------------------------------------------------------------------
(* Confirmation before the destructive call *)

\* The request a step has issued: the last of the requests in flight, when the
\* step has added one.
Issued(before, after) ==
    IF Len(after) = Len(before) + 1 THEN {after[Len(after)]} ELSE {}

(* C11: every step that issues a deleteMeal(m) request is the press of the
   confirm control for the selected meal m, after the press of the delete
   control for m, with no change of selection, cancel, close or click outside
   in between. *)
C11_DeleteOnlyAfterConfirmation ==
    [][\A c \in Issued(mealCalls, mealCalls') :
          c.op = "delete" =>
            /\ c.ui
            /\ armedFor = c.arg
            /\ selectedMeal.id = c.arg
            /\ selectedMeal' = selectedMeal]_vars

\* A confirmed delete is in flight while the user has selected another meal.
C11_Witness ==
    \E i \in DOMAIN mealCalls :
        /\ mealCalls[i].op = "delete" /\ mealCalls[i].ui
        /\ isDeleting
        /\ selectedMeal # NoMeal
        /\ selectedMeal.id # mealCalls[i].arg

----------------------------------------------------------------------------
(* Failed microphone acquisition *)

\* The call k of startRecording has failed to acquire the microphone.
Denied(k) == sess[k].phase = "denied"

(* C12: when the microphone acquisition of a call of startRecording fails
   while the recorder is shown,
   the failing step sets one of the three fixed error strings and changes
   nothing else of the recorder state and starts no upload; the call never
   records, produces no audio and is never uploaded; and while no other call
   has acquired the microphone, isRecording is false and audioBlob is null. *)
C12_FailedAcquisitionRecordsNothing ==
    /\ [](\A k \in Sessions :
            Denied(k) =>
              /\ sess[k].startedAt = NoTime /\ ~sess[k].streamLive
              /\ rec.audioBlob # k /\ uploadsOf[k] = 0
              /\ (\A j \in Sessions : sess[j].phase \in {"unused", "denied"}) =>
                    (~rec.isRecording /\ rec.audioBlob = NoRef /\ ~isUploading))
    /\ [][\A k \in Sessions :
            (comp.mounted /\ ~Denied(k) /\ Denied(k)') =>
              /\ rec'.error \in {MicrophoneError(name) : name \in AcquireErrors}
              /\ rec' = [rec EXCEPT !.error = rec'.error]
              /\ mealCalls' = mealCalls /\ uploadsOf' = uploadsOf]_vars

\* Permission was denied to the only call of startRecording: the error is
\* shown and nothing is recorded.
C12_Witness ==
    /\ Denied(1) /\ \A j \in Sessions \ {1} : sess[j].phase = "unused"
    /\ rec.error = MicrophoneError("NotAllowedError")
    /\ ~rec.isRecording /\ rec.audioBlob = NoRef

----------------------------------------------------------------------------
(* Release of the microphone *)

\* The recording flow of call k has ended: its recorder has delivered its stop
\* event, or the component that drives it is unmounted.
FlowEnded(k) == sess[k].phase = "stopped" \/ ~comp.mounted

(* C13: once the recording flow has ended, by stop, reset or unmount, no
   acquired stream has live tracks and no AudioContext is open. *)
C13_ReleasedOnEveryExit ==
    \A k \in Sessions :
        FlowEnded(k) => (~sess[k].streamLive /\ ~sess[k].ctxOpen)

----------------------------------------------------------------------------
(* Logout *)

(* C14: when logout completes, whether the server call succeeded or failed,
   the token is absent from storage and the auth store has user = null,
   token = null, isAuthenticated = false, isLoading = false, error = null. *)
C14_LogoutClearsSession ==
    authDone # "none" =>
        /\ lsToken = NoToken
        /\ authStore.user = NoUser /\ authStore.token = NoToken
        /\ ~authStore.isAuthenticated /\ ~authStore.isLoading
        /\ authStore.error = "null"

\* The logout request was lost on the network: the server still accepts the
\* token, and the local session is cleared.
C14_Witness ==
    /\ authDone = "failed"
    /\ validTokens # {}
    /\ lsToken = NoToken /\ ~authStore.isAuthenticated

----------------------------------------------------------------------------
(* The background refresh of the dashboard *)

\* The background refreshes in flight.
Refreshes(calls) == Cardinality({i \in DOMAIN calls : calls[i].op = "dashboard"})

\* The background refresh has failed in the last step.
RefreshFailed(done) == done.op = "dashboard" /\ ~done.ok

(* C15: the background refresh is started by the step in which an upload, a
   revert or a delete returns its success result, and the step in which the
   refresh fails sets no error and keeps meals, currentMeal, dailyStats,
   dashboardData and the success message as the triggering action left
   them. *)
C15_RefreshFailureSwallowed ==
    [][/\ Refreshes(mealCalls') > Refreshes(mealCalls) =>
             /\ lastDone'.op \in {"upload", "revert", "delete"}
             /\ lastDone'.ok /\ lastDone'.ret
       /\ RefreshFailed(lastDone') =>
             /\ mealError' = mealError
             /\ successMessage' = successMessage
             /\ <<meals, currentMeal, dailyStats, dashboardData>>' =
                  <<meals, currentMeal, dailyStats, dashboardData>>]_vars

\* The refresh after a successful upload has failed: the logged meal, the
\* success message and the absence of an error are as the upload left them.
C15_Witness ==
    /\ RefreshFailed(lastDone)
    /\ currentMeal # NoMeal /\ currentMeal.id \in Ids(meals)
    /\ successMessage = "Meal logged!"
    /\ mealError = "null"

----------------------------------------------------------------------------
(* Concurrent fetches *)

\* The response of the request c has landed in the step: c has left the
\* requests in flight, answered with a payload.
Landed(c, before, after) ==
    /\ c.stage = "answered" /\ c.status = "ok"
    /\ \E i \in DOMAIN before : before[i] = c /\ after = RemoveAt(before, i)

(* C16: whenever the response of a fetch lands, the store field it writes
   holds the payload of that response, whichever request was issued first and
   whatever the field held: after two concurrent fetches of one field the
   field holds the payload of the response that landed last. *)
C16_LastResponseWins ==
    [][\A c \in Range(mealCalls) :
          Landed(c, mealCalls, mealCalls') =>
            /\ (c.op = "daily" /\ lastDone'.op = "daily") =>
                  (~dailyStats'.isNull /\ dailyStats'.meals = c.payload)
            /\ (c.op = "meals" /\ lastDone'.op = "meals") => meals' = c.payload
            /\ (c.op = "dashboard" /\ lastDone'.op = "dashboard") =>
                  dashboardData' = c.payload[1]]_vars

\* Of two fetches of the daily statistics that were answered with different
\* payloads, one has landed and the other is still in flight.
C16_Witness ==
    /\ lastDone.op = "daily" /\ lastDone.ok
    /\ \E i \in DOMAIN mealCalls :
          /\ mealCalls[i].op = "daily"
          /\ mealCalls[i].stage = "answered" /\ mealCalls[i].status = "ok"
          /\ mealCalls[i].payload # dailyStats.meals

----------------------------------------------------------------------------
(* Failed service calls *)

\* The service call of the request c has failed and its store action has
\* ended in the step.
Failed(c, before, after) ==
    /\ c.stage = "answered" /\ c.status # "ok"
    /\ \E i \in DOMAIN before : before[i] = c /\ after = RemoveAt(before, i)

(* C17: when the service call of an upload, a revert, a delete or a fetch of
   the meals or of the daily statistics fails, the store action ends with a
   non-empty error string in the store and with the busy flag it raised
   (isUploading for an upload, isLoading for a fetch) false, and it resolves:
   the upload and the undo with the failure value (null, false), the fetch
   normally. *)
C17_FailureCaughtByStore ==
    [][\A c \in Range(mealCalls) :
          (Failed(c, mealCalls, mealCalls') /\ c.op # "dashboard") =>
            /\ mealError' \notin {"null", ""}
            /\ lastDone'.op = c.op /\ ~lastDone'.ok
            /\ c.op = "upload" => (~isUploading' /\ ~lastDone'.ret)
            /\ c.op \in {"revert", "delete"} => ~lastDone'.ret
            /\ c.op \in {"daily", "meals"} => (~isLoading' /\ lastDone'.ret)]_vars

\* An upload has failed while nothing else was in flight: the store shows the
\* error and is not busy.
C17_Witness ==
    /\ lastDone.op = "upload" /\ ~lastDone.ok /\ ~lastDone.ret
    /\ mealCalls = <<>> /\ ~isUploading /\ mealError # "null"

----------------------------------------------------------------------------
(* Not found *)

ListFetches(calls) ==
    Cardinality({i \in DOMAIN calls : calls[i].op \in {"daily", "meals"}})

InLists(mealId, list, stats) == mealId \in Ids(list) \cup Ids(stats.meals)

(* C18: when a revert or a delete that the backend answered with 404 ends, the
   store starts a fetch of the meals or the meal is in none of the store's
   lists any more. *)
C18_NotFoundRefreshesList ==
    [][\A c \in Range(mealCalls) :
          (/\ c.op \in {"revert", "delete"}
           /\ c.stage = "answered" /\ c.status = "not_found"
           /\ c \notin Range(mealCalls')) =>
             \/ ListFetches(mealCalls') > ListFetches(mealCalls)
             \/ ~InLists(c.arg, meals', dailyStats')]_vars

----------------------------------------------------------------------------
(* Failed upload of a recording *)

\* The upload of a recording has failed in the step.
VoiceUploadFailed ==
    \E c \in Range(mealCalls) :
        c.op = "upload" /\ c.ui /\ c.stage = "answered" /\ c.status # "ok"
        /\ c \notin Range(mealCalls') /\ lastDone'.op = "upload" /\ ~lastDone'.ok

\* The user has acted in the step.
UserActs == acts' = acts + 1

(* C19: when the upload of a recording fails, the recording is kept and the
   error is shown, and an upload of a recording that was uploaded before is
   started only by an action of the user (Retry). *)
C19_RetryOnlyOnRequest ==
    [][/\ VoiceUploadFailed =>
             (rec'.audioBlob = rec.audioBlob /\ mealError' # "null" /\ ~isUploading')
       /\ \A k \in Sessions :
            (uploadsOf[k] >= 1 /\ uploadsOf'[k] > uploadsOf[k]) => UserActs]_vars

----------------------------------------------------------------------------
(* Silent refresh of the dashboard *)

\* A background refresh has ended in the step, with either outcome.
SilentRefreshEnds ==
    \E c \in Range(mealCalls) :
        c.op = "dashboard" /\ c.stage = "answered"
        /\ c \notin Range(mealCalls') /\ lastDone'.op = "dashboard"

(* C20: when a silent refresh of the dashboard ends, with a payload or with a
   failure, isLoading and error have the values they had before, and no field
   of the store's data other than dashboardData has changed. *)
C20_SilentRefreshKeepsFlags ==
    [][SilentRefreshEnds =>
          /\ isLoading' = isLoading /\ mealError' = mealError
          /\ <<meals, currentMeal, dailyStats, isUploading, successMessage>>'
                = <<meals, currentMeal, dailyStats, isUploading, successMessage>>]_vars

----------------------------------------------------------------------------
(* The quick tap *)

\* The step is the release of a quick tap on the idle recorder: the button
\* handles the release while the hold timer of the press is pending.
QuickTap ==
    /\ held /\ ~held' /\ comp'.gesture = "up"
    /\ comp.pressTimer # NoTime /\ ~comp.isPressHoldRef
    /\ ~rec.isRecording /\ rec.audioBlob = NoRef /\ ~isUploading

\* The calls of startRecording made so far.
Started(s) == {k \in Sessions : s[k].phase # "unused"}

\* MediaRecorder.stop() is called on the recorder of call k in the step.
StopCalled(k) == sess[k].phase = "recording" /\ sess'[k].phase = "stopping"

(* C21: the release of a quick tap on the idle recorder makes exactly one call
   of startRecording, in toggle mode, and stops nothing: the call is left
   awaiting the microphone. The hold timer of the tap is cleared, so the tap
   starts no hold recording later. A toggle recording is stopped only by a
   later action of the user (a press or release of the button, or New
   Recording), by the silence check or by the duration cap. *)
C21_TapStartsOneToggleRecording ==
    /\ [](comp.gesture \in {"up", "leave"} => comp.pressTimer = NoTime)
    /\ [][QuickTap =>
            /\ \E k \in Sessions \ Started(sess) :
                  /\ Started(sess') = Started(sess) \cup {k}
                  /\ sess'[k].phase = "acquiring" /\ sess'[k].mode = "toggle"
            /\ rec'.recordingMode = "toggle"
            /\ \A j \in Sessions : ~StopCalled(j)]_vars
    /\ [][\A k \in Sessions :
            (StopCalled(k) /\ sess[k].mode = "toggle") =>
               /\ sess'[k].stoppedBy \in {"user", "reset", "silence", "cap"}
               /\ sess'[k].stoppedBy \in {"user", "reset"} =>
                     (acts' = acts + 1 /\ ~QuickTap)]_vars

----------------------------------------------------------------------------
(* One microphone *)

LiveStreams == {k \in Sessions : sess[k].streamLive}

LiveRecorders == {k \in Sessions : sess[k].phase = "recording"}

(* C22: at most one microphone stream the hook acquired is live and at most
   one MediaRecorder it created is recording. *)
C22_OneStreamOneRecorder ==
    Cardinality(LiveStreams) <= 1 /\ Cardinality(LiveRecorders) <= 1

----------------------------------------------------------------------------
(* The stop triggers *)

(* C23: stop() is called at most once on the MediaRecorder of each call of
   startRecording, by whichever of the user's stop, the silence check and the
   duration cap comes first; the stop event of a recorder comes once and sets
   audioBlob to its recording; and stopRecording changes nothing while no
   recorder is recording. *)
C23_StoppedOnceOneBlob ==
    /\ [](\A k \in Sessions :
            /\ sess[k].stops <= 1
            /\ sess[k].stops = 1 <=> sess[k].phase \in {"stopping", "stopped"})
    /\ [](LiveRecorders = {} =>
            stopRecording(Hook(rec, sess), "user") = Hook(rec, sess))
    /\ [][\A k \in Sessions :
            /\ sess[k].phase = "stopped" => sess'[k].phase = "stopped"
            /\ (comp.mounted /\ sess[k].phase = "stopping" /\ sess'[k].phase = "stopped")
                  => (rec'.audioBlob = k /\ ~rec'.isRecording)]_vars

\* The silence check has stopped a toggle recording whose stop event is still
\* to come, while the user holds the button down: the release calls
\* stopRecording for the recording the silence check has stopped already.
C23_Witness ==
    /\ sess[1].stoppedBy = "silence" /\ sess[1].stops = 1
    /\ sess[1].phase = "stopping" /\ rec.isRecording /\ rec.recordingMode = "toggle"
    /\ held /\ comp.gesture = "down" /\ ~ButtonDisabled
    /\ \A j \in Sessions \ {1} : sess[j].phase = "unused"

----------------------------------------------------------------------------
(* Reset *)

\* resetRecording has returned and startRecording has not been called since:
\* only the reset (and the initial state) leaves recordingMode null.
AfterReset == comp.mounted /\ rec.recordingMode = "null"

(* C24: from the return of resetRecording until the next call of
   startRecording the hook's state is idle (isRecording false, duration 0,
   audioBlob null, error null, recordingMode null), whatever events of the
   recording that was reset arrive, and no upload is started. *)
C24_ResetStaysIdle ==
    /\ [](AfterReset =>
            /\ ~rec.isRecording /\ rec.duration = 0
            /\ rec.audioBlob = NoRef /\ rec.error = "null")
    /\ [][AfterReset => uploadsOf' = uploadsOf]_vars

----------------------------------------------------------------------------
(* Pause *)

(* C25: while the recording is paused the reported duration does not change,
   and the resume leaves it at the value it had at the pause. *)
C25_PausedTimeNotCounted ==
    [][rec.isPaused => rec'.duration = rec.duration]_vars

----------------------------------------------------------------------------
(* Recording and uploading *)

(* C26: while the recorder is shown, isRecording is true neither while an
   upload is in flight (isUploading) nor while a recording waits to be reset
   (audioBlob). *)
C26_NoRecordingWhileUploading ==
    comp.mounted =>
        /\ ~(rec.isRecording /\ isUploading)
        /\ ~(rec.isRecording /\ rec.audioBlob # NoRef)

----------------------------------------------------------------------------
(* The loading flag *)

\* The fetches that are not silent and have not returned yet.
FetchesInFlight == {i \in DOMAIN mealCalls : mealCalls[i].op \in {"daily", "meals"}}

(* C27: isLoading is true while a fetch that is not silent is in flight. *)
C27_LoadingWhileFetching == FetchesInFlight # {} => isLoading

----------------------------------------------------------------------------
(* Removed meals *)

\* The meals whose revert or delete has succeeded: the backend has removed the
\* meal and its answer has arrived in the store.
RemovedMeals ==
    {srvMeals[j].id : j \in {i \in DOMAIN srvMeals : ~srvMeals[i].live}}
      \ {c.arg : c \in {d \in Range(mealCalls) :
                          d.op \in {"revert", "delete"} /\ d.status = "ok"}}

(* C28: a meal whose revert or delete has succeeded is neither in meals nor
   in dailyStats.meals. *)
C28_RemovedMealStaysOut ==
    \A m \in RemovedMeals : ~InLists(m, meals, dailyStats)

----------------------------------------------------------------------------
(* Initialization of the session *)

\* initializeAuth completes in the step.
InitializeAuthCompletes == initState # "done" /\ initState' = "done"

(* C29: when initializeAuth completes, isAuthenticated is true only if a
   stored token was sent and the backend accepts it; otherwise the store is
   logged out: isAuthenticated false, user null, token null. *)
C29_InitializedOnlyByValidToken ==
    [][InitializeAuthCompletes =>
          IF authStore'.isAuthenticated
          THEN /\ initState = "running"
               /\ \E c \in authCalls : c.op = "validate" /\ c.hdr \in validTokens
          ELSE authStore'.user = NoUser /\ authStore'.token = NoToken]_vars

====
